---- MODULE Spec2Model ----
(***************************************************************************)
(* Model of dump_fuelprices.py: the site reconciler (fetch_site_mappings), *)
(* the per-site price fan-out and merge (fetch_and_save_fuel_prices), the  *)
(* date helper (convert_date) and the orchestration in main.               *)
(*                                                                         *)
(* Encoding of Python / JSON values                                        *)
(*   - text is a TLA+ string; Python None in a text position is the        *)
(*     sentinel None (no value the code produces equals it);               *)
(*   - a JSON object is a function whose DOMAIN is the set of keys the     *)
(*     object carries (a key that is absent is not in the DOMAIN);         *)
(*   - a timestamp token is a sequence of one-character strings, so that   *)
(*     str.split can be computed on it;                                    *)
(*   - a price is a natural number of tenths of a cent (0 is the JSON      *)
(*     number 0, which Python treats as false).                            *)
(***************************************************************************)
EXTENDS Integers, Sequences, FiniteSets, TLC

VARIABLES
    pc,                 \* position of the process: "idle", "gather", "loop"
    runs,               \* invocations of main() started so far
    outcome,            \* how the last invocation ended, "" while it runs
    get_sites_response, \* JSON answered by the getSites endpoint
    site_response,      \* JSON answered by the site endpoint
    site_codes,         \* iteration order of site_codes_set in this run
    site_mappings,      \* site_code -> {name, latitude, longitude, address}
    tasks,              \* site_code -> "pending" | "done", the fetch_json calls
    results,            \* site_code -> result gathered for the site
    idx,                \* position of the processing loop in site_codes
    raw_files,          \* fuelprices/fuelprices_<code>.json, NoFile if absent
    parsed_files,       \* docs/fuelprices_json/fuelprices_<code>.json
    mappings_file,      \* docs/site_mappings.json
    start_raw,          \* raw_files as they were when this run started
    start_parsed,       \* parsed_files as they were when this run started
    hist                \* site_code -> record of the merges into its parsed file

vars == <<pc, runs, outcome, get_sites_response, site_response, site_codes,
          site_mappings, tasks, results, idx, raw_files, parsed_files,
          mappings_file, start_raw, start_parsed, hist>>

---------------------------------------------------------------------------
(* Bounds of the model *)

MaxRuns == 2

---------------------------------------------------------------------------
(* Python values *)

None == "None"

NoFile == [exists |-> FALSE]

EmptyDict == [k \in {} |-> None]

\* dict.get(key, default)
Get(d, k, default) == IF k \in DOMAIN d THEN d[k] ELSE default

\* dict.update(other): keys of other overwrite, the other keys are kept
Update(d, other) ==
    [k \in (DOMAIN d) \cup (DOMAIN other) |->
        IF k \in DOMAIN other THEN other[k] ELSE d[k]]

\* d[key] = value on a dict of dicts
SetItem(d, k, v) ==
    [x \in (DOMAIN d) \cup {k} |-> IF x = k THEN v ELSE d[x]]

\* truth value of a text-or-None value: None and "" are false
Truthy(v) == v # None /\ v # ""

---------------------------------------------------------------------------
(* convert_date *)

Digits == <<"0", "1", "2", "3", "4", "5", "6", "7", "8", "9">>

IsDigit(c) == \E i \in 1..10 : Digits[i] = c

DigitValue(c) == (CHOOSE i \in 1..10 : Digits[i] = c) - 1

\* index of the first occurrence of c in s, 0 if there is none
RECURSIVE IndexFrom(_, _, _)
IndexFrom(s, c, i) ==
    IF i > Len(s) THEN 0
    ELSE IF s[i] = c THEN i
    ELSE IndexFrom(s, c, i + 1)

IndexOf(s, c) == IndexFrom(s, c, 1)

\* s.split(c)[0]
SplitFirst(s, c) ==
    IF IndexOf(s, c) = 0 THEN s ELSE SubSeq(s, 1, IndexOf(s, c) - 1)

\* s.split(c)[1]; only defined when c occurs in s (IndexError otherwise)
SplitSecond(s, c) ==
    SplitFirst(SubSeq(s, IndexOf(s, c) + 1, Len(s)), c)

\* int(text) succeeds: the tokens of the model carry no whitespace, sign or
\* underscore after the split, so int() accepts exactly the non-empty digit runs
IsInt(s) == Len(s) > 0 /\ \A i \in 1..Len(s) : IsDigit(s[i])

RECURSIVE ParseInt(_)
ParseInt(s) ==
    IF Len(s) = 0 THEN 0
    ELSE 10 * ParseInt(SubSeq(s, 1, Len(s) - 1)) + DigitValue(s[Len(s)])

Pad2(n) == IF n < 10 THEN "0" \o ToString(n) ELSE ToString(n)

Pad3(n) ==
    IF n < 10 THEN "00" \o ToString(n)
    ELSE IF n < 100 THEN "0" \o ToString(n)
    ELSE ToString(n)

\* datetime.utcfromtimestamp(ms / 1000).isoformat(), for instants of
\* 1970-01-01 (0 <= ms < 86400000): the microseconds are printed only when
\* they are not zero
IsoFormat(ms) ==
    LET secs == ms \div 1000
        frac == ms % 1000
        hms  == Pad2(secs \div 3600) \o ":" \o Pad2((secs % 3600) \div 60)
                    \o ":" \o Pad2(secs % 60)
    IN  "1970-01-01T" \o hms
            \o (IF frac = 0 THEN "" ELSE "." \o Pad3(frac) \o "000")

\* A JSON value in the date_entered position: a string token or null
JStr(chars) == [is_str |-> TRUE, chars |-> chars]

JNull == [is_str |-> FALSE, chars |-> <<>>]

\* convert_date(ms_date): every exception inside the try yields None
ConvertDate(ms_date) ==
    IF ~ms_date.is_str THEN None                           \* AttributeError
    ELSE IF IndexOf(ms_date.chars, "(") = 0 THEN None      \* IndexError
    ELSE LET epoch == SplitFirst(SplitSecond(ms_date.chars, "("), "+")
         IN  IF ~IsInt(epoch) THEN None                    \* ValueError
             ELSE IsoFormat(ParseInt(epoch))

---------------------------------------------------------------------------
(* JSON of the two site-listing endpoints *)

\* an element of a listing: a site object or a bare identifier string
Obj(d) == [is_obj |-> TRUE, d |-> d, s |-> ""]

Str(s) == [is_obj |-> FALSE, d |-> EmptyDict, s |-> s]

\* top-level shapes: a mapping with the list under "sites", a mapping with the
\* list under another key, a bare list
DictSites(items) == [kind |-> "dict", has_sites |-> TRUE, items |-> items]

DictOther(items) == [kind |-> "dict", has_sites |-> FALSE, items |-> items]

List(items) == [kind |-> "list", has_sites |-> FALSE, items |-> items]

\* a top-level JSON value that is neither a mapping nor a list (a string, null)
Scalar == [kind |-> "scalar", has_sites |-> FALSE, items |-> <<>>]

\* nothing fetched yet
NoResponse == [kind |-> "none", has_sites |-> FALSE, items |-> <<>>]

---------------------------------------------------------------------------
(* fetch_site_mappings *)

\* the value fetch_site_mappings returns, or the exception it lets through
Returned(codes, mappings) ==
    [raised |-> FALSE, codes |-> codes, mappings |-> mappings]

Raised == [raised |-> TRUE, codes |-> {}, mappings |-> EmptyDict]

\* lines 82 and 87: the shapes the two validations accept
GetSitesShapeOk(resp) == resp.kind = "dict" /\ resp.has_sites

SiteShapeOk(resp) == resp.kind = "list"

\* lines 98-103: the record built from a get_sites element
GetSitesRecord(site, site_code) ==
    [name      |-> Get(site, "name", "Site " \o site_code),
     latitude  |-> Get(site, "latitude", None),
     longitude |-> Get(site, "longitude", None),
     address   |-> Get(site, "address", None)]

\* lines 112-117: the fields a site element passes to dict.update
SiteFields(site, site_code) ==
    [name      |-> Get(site, "SiteName", "Site " \o site_code),
     latitude  |-> Get(site, "Latitude", None),
     longitude |-> Get(site, "Longitude", None),
     address   |-> Get(site, "StreetAddress", None)]

\* lines 95-104: the loop over get_sites_response["sites"], from element i on,
\* acc being (site_codes_set, site_mappings) so far
RECURSIVE ProcessGetSites(_, _, _)
ProcessGetSites(items, i, acc) ==
    IF acc.raised \/ i > Len(items) THEN acc
    ELSE IF ~items[i].is_obj THEN Raised        \* str has no .get
    ELSE LET site      == items[i].d
             site_code == Get(site, "site_code", None)
         IN  IF Truthy(site_code)
             THEN ProcessGetSites(items, i + 1,
                    Returned(acc.codes \cup {site_code},
                             SetItem(acc.mappings, site_code,
                                     GetSitesRecord(site, site_code))))
             ELSE ProcessGetSites(items, i + 1, acc)

\* lines 107-118: the loop over site_response
RECURSIVE ProcessSite(_, _, _)
ProcessSite(items, i, acc) ==
    IF acc.raised \/ i > Len(items) THEN acc
    ELSE IF ~items[i].is_obj THEN Raised        \* str has no .get
    ELSE LET site      == items[i].d
             site_code == Get(site, "SiteCode", None)
             before    == Get(acc.mappings, site_code, EmptyDict)
         IN  IF Truthy(site_code)
             THEN ProcessSite(items, i + 1,
                    Returned(acc.codes \cup {site_code},
                             SetItem(acc.mappings, site_code,
                                     Update(before, SiteFields(site, site_code)))))
             ELSE ProcessSite(items, i + 1, acc)

\* fetch_site_mappings() on the two responses
FetchSiteMappings(gs, sr) ==
    IF ~GetSitesShapeOk(gs) THEN Returned({}, EmptyDict)
    ELSE IF ~SiteShapeOk(sr) THEN Returned({}, EmptyDict)
    ELSE ProcessSite(sr.items, 1,
            ProcessGetSites(gs.items, 1, Returned({}, EmptyDict)))

---------------------------------------------------------------------------
(* JSON of the price endpoint, and what asyncio.gather hands back for a site *)

\* fetch_json raised (timeout, non-2xx status, body that is not JSON): gather
\* returns the exception object in the site's position
FetchException == [kind |-> "exception", has_prices |-> FALSE, entries |-> <<>>]

\* a body that is valid JSON but a list at top level
JsonList == [kind |-> "list", has_prices |-> FALSE, entries |-> <<>>]

\* a JSON object carrying "sitefuelprices"
PriceDict(entries) == [kind |-> "dict", has_prices |-> TRUE, entries |-> entries]

\* a JSON object without "sitefuelprices"
PriceDictBare == [kind |-> "dict", has_prices |-> FALSE, entries |-> <<>>]

NoResult == [kind |-> "none", has_prices |-> FALSE, entries |-> <<>>]

---------------------------------------------------------------------------
(* fetch_and_save_fuel_prices: the body of the loop over zip(site_codes, results) *)

\* IsFailure without the isinstance check of line 136
IsFailureNever(result) == FALSE

\* line 136: isinstance(result, Exception)
IsFailure(result) == result.kind = "exception"

\* line 159: department_code and price and date
Admitted(entry, date) ==
    /\ "department_code" \in DOMAIN entry
    /\ Truthy(entry["department_code"])
    /\ "current_price" \in DOMAIN entry
    /\ entry["current_price"] # 0
    /\ date # None

\* lines 160-164
PriceEntry(entry, date) ==
    [department_code |-> entry["department_code"],
     date            |-> date,
     price           |-> entry["current_price"]]

\* lines 154-164: new_prices built from the payload, from entry i on; raised
\* is set where the code lets an exception through: result.get on a list
\* (AttributeError, line 155), entry["date_entered"] on an entry without the
\* key (KeyError, line 158)
RECURSIVE CollectPrices(_, _, _)
CollectPrices(entries, i, acc) ==
    IF i > Len(entries) THEN [raised |-> FALSE, prices |-> acc]
    ELSE IF "date_entered" \notin DOMAIN entries[i]
         THEN [raised |-> TRUE, prices |-> <<>>]
    ELSE LET date == ConvertDate(entries[i]["date_entered"])
         IN  IF Admitted(entries[i], date)
             THEN CollectPrices(entries, i + 1,
                                Append(acc, PriceEntry(entries[i], date)))
             ELSE CollectPrices(entries, i + 1, acc)

NewPrices(result) ==
    IF result.kind # "dict" THEN [raised |-> TRUE, prices |-> <<>>]
    ELSE CollectPrices(result.entries, 1, <<>>)

\* PriceKey built from the date alone
PriceKeyDateOnly(p) == p.date

\* line 184: the dictionary key f"{p['date']}_{p['department_code']}"
PriceKey(p) == p.date \o "_" \o p.department_code

\* line 184: inserting key -> p into a dict kept in insertion order: a key
\* already present keeps its position and takes the new value
DictPut(acc, p) ==
    IF \E j \in 1..Len(acc) : PriceKey(acc[j]) = PriceKey(p)
    THEN [j \in 1..Len(acc) |->
            IF PriceKey(acc[j]) = PriceKey(p) THEN p ELSE acc[j]]
    ELSE Append(acc, p)

RECURSIVE DictFrom(_, _, _)
DictFrom(ps, i, acc) ==
    IF i > Len(ps) THEN acc ELSE DictFrom(ps, i + 1, DictPut(acc, ps[i]))

\* MergePrices as a plain concatenation, without the dictionary
MergePricesAppend(existing_prices, new_prices) == existing_prices \o new_prices

\* lines 184-185: list({key: p for p in existing_prices + new_prices}.values())
MergePrices(existing_prices, new_prices) ==
    DictFrom(existing_prices \o new_prices, 1, <<>>)

\* lines 143-144: the raw payload written verbatim
RawFile(result) == [exists |-> TRUE, content |-> result]

\* lines 148-151 and 174-180: the skeleton used when no parsed file exists
Skeleton(site_code, mappings) ==
    LET site_details == Get(mappings, site_code,
                            [name |-> "Site " \o site_code])
    IN  [exists    |-> TRUE,
         site_code |-> site_code,
         site_name |-> Get(site_details, "name", None),
         latitude  |-> Get(site_details, "latitude", None),
         longitude |-> Get(site_details, "longitude", None),
         prices    |-> <<>>]

\* LoadExisting rebuilding the header from this run's site mappings
LoadExistingRefreshed(file, site_code, mappings) ==
    [exists    |-> TRUE,
     site_code |-> site_code,
     site_name |-> Get(Get(mappings, site_code, EmptyDict), "name", None),
     latitude  |-> Get(Get(mappings, site_code, EmptyDict), "latitude", None),
     longitude |-> Get(Get(mappings, site_code, EmptyDict), "longitude", None),
     prices    |-> IF file.exists THEN file.prices ELSE <<>>]

\* lines 169-181: existing_data
LoadExisting(file, site_code, mappings) ==
    IF file.exists THEN file ELSE Skeleton(site_code, mappings)

\* lines 183-189: the parsed file written back
ParsedFile(file, site_code, mappings, new_prices) ==
    LET existing_data == LoadExisting(file, site_code, mappings)
    IN  [existing_data EXCEPT
            !.prices = MergePrices(existing_data.prices, new_prices)]

---------------------------------------------------------------------------
(* fetch_and_save_fuel_prices: the fan-out *)

Range(seq) == {seq[i] : i \in 1..Len(seq)}

\* lines 128-133: one fetch_json coroutine per site, all handed to
\* asyncio.gather and awaited together; a call is pending from then until it
\* returns or raises (whether a pending call holds a connection or waits in
\* the HTTP client's pool is the client's business and is not modelled)
Dispatch(order) == [s \in Range(order) |-> "pending"]

\* the iteration orders of a Python set of strings (the order depends on the
\* process's hash seed)
Orders(codes) ==
    {order \in [1..Cardinality(codes) -> codes] :
        \A i, j \in 1..Cardinality(codes) : order[i] = order[j] => i = j}

AllDone == \A s \in DOMAIN tasks : tasks[s] = "done"

---------------------------------------------------------------------------
(* The inputs of the model: what the upstream endpoints may answer *)

SiteIds == {"S1", "S2"}

Date == <<"/", "D", "a", "t", "e">>

\* /Date(1000+1030)/
TokenT1 == JStr(Date \o <<"(", "1", "0", "0", "0", "+", "1", "0", "3", "0", ")", "/">>)

\* /Date(1000+0000)/ : the instant of TokenT1 under another offset
TokenT1Utc == JStr(Date \o <<"(", "1", "0", "0", "0", "+", "0", "0", "0", "0", ")", "/">>)

\* /Date(2500+1030)/
TokenT2 == JStr(Date \o <<"(", "2", "5", "0", "0", "+", "1", "0", "3", "0", ")", "/">>)

\* /Date1000+1030/ : the parentheses are missing
TokenNoParen == JStr(Date \o <<"1", "0", "0", "0", "+", "1", "0", "3", "0", "/">>)

\* /Date(1x00+1030)/ : the epoch is not a number
TokenNotNumber == JStr(Date \o <<"(", "1", "x", "0", "0", "+", "1", "0", "3", "0", ")", "/">>)

DieselT1 == [department_code |-> "DSL", current_price |-> 1500, date_entered |-> TokenT1]

DieselT1Dearer == [department_code |-> "DSL", current_price |-> 1550, date_entered |-> TokenT1Utc]

UnleadedT1 == [department_code |-> "ULP", current_price |-> 1600, date_entered |-> TokenT1]

UnleadedT2 == [department_code |-> "ULP", current_price |-> 1500, date_entered |-> TokenT2]

DieselNoParen == [department_code |-> "DSL", current_price |-> 1700, date_entered |-> TokenNoParen]

DieselNotNumber == [department_code |-> "DSL", current_price |-> 1700, date_entered |-> TokenNotNumber]

DieselNullDate == [department_code |-> "DSL", current_price |-> 1700, date_entered |-> JNull]

DieselNoDate == [department_code |-> "DSL", current_price |-> 1700]

UnleadedFree == [department_code |-> "ULP", current_price |-> 0, date_entered |-> TokenT2]

NoDepartment == [current_price |-> 1500, date_entered |-> TokenT2]

\* what the price endpoint may answer for a site
Payloads ==
    {FetchException,
     JsonList,
     PriceDict(<<DieselT1>>),
     PriceDict(<<DieselT1, DieselT1Dearer, UnleadedT2>>),
     PriceDict(<<UnleadedT1, DieselNoParen, DieselNotNumber, DieselNullDate,
                 UnleadedFree, NoDepartment>>),
     PriceDict(<<DieselT1, DieselNoDate>>)}

AlphaSite ==
    Obj([site_code |-> "S1", name |-> "Alpha", latitude |-> "-34.9",
         longitude |-> "138.6", address |-> "1 Main St"])

BetaSite == Obj([site_code |-> "S2", name |-> "Beta"])

AlphaMoved == Obj([SiteCode |-> "S1", StreetAddress |-> "9 High St"])

BetaRenamed ==
    Obj([SiteCode |-> "S2", SiteName |-> "Beta Two", Latitude |-> "-35.0",
         Longitude |-> "138.5"])

\* the pairs of listings a run of the whole program may receive
Listings ==
    {[gs |-> DictSites(<<AlphaSite, BetaSite>>), sr |-> List(<<>>)],
     [gs |-> DictSites(<<AlphaSite>>), sr |-> List(<<AlphaMoved, BetaRenamed>>)],
     [gs |-> DictSites(<<AlphaSite>>), sr |-> List(<<>>)],
     [gs |-> List(<<AlphaSite, BetaSite>>), sr |-> List(<<BetaRenamed>>)],
     [gs |-> DictSites(<<AlphaSite>>), sr |-> Scalar],
     [gs |-> DictSites(<<AlphaSite>>), sr |-> List(<<Str("S2")>>)]}

---------------------------------------------------------------------------
(* The wider inputs of the reconciler alone *)

MaxItems == 2

GetSitesItems ==
    {AlphaSite,
     Obj([site_code |-> "S2", address |-> "2 Side Rd"]),
     Obj([site_code |-> "", name |-> "Blank"]),
     Obj([SiteCode |-> "S2", SiteName |-> "Beta Two"]),
     Str("S2")}

SiteItems ==
    {AlphaMoved, BetaRenamed,
     Obj([SiteName |-> "Nameless"]),
     Obj([site_code |-> "S1", name |-> "Alpha"]),
     Str("S1")}

SeqsUpTo(S, n) == UNION {[1..k -> S] : k \in 0..n}

Shapes(items) == {DictSites(items), DictOther(items), List(items)}

GetSitesResponses ==
    {Scalar} \cup UNION {Shapes(items) : items \in SeqsUpTo(GetSitesItems, MaxItems)}

SiteResponses ==
    {Scalar} \cup UNION {Shapes(items) : items \in SeqsUpTo(SiteItems, MaxItems)}

---------------------------------------------------------------------------
(* State machine *)

NoHistory == [n |-> 0, before |-> NoFile, prices |-> <<>>, prev |-> <<>>,
              first |-> NoFile]

Idle ==
    /\ pc = "idle"
    /\ runs = 0
    /\ outcome = ""
    /\ site_codes = <<>>
    /\ site_mappings = EmptyDict
    /\ tasks = EmptyDict
    /\ results = EmptyDict
    /\ idx = 0
    /\ raw_files = [s \in SiteIds |-> NoFile]
    /\ parsed_files = [s \in SiteIds |-> NoFile]
    /\ mappings_file = NoFile
    /\ start_raw = [s \in SiteIds |-> NoFile]
    /\ start_parsed = [s \in SiteIds |-> NoFile]
    /\ hist = [s \in SiteIds |-> NoHistory]

\* a cold store, nothing fetched yet
Init ==
    /\ Idle
    /\ get_sites_response = NoResponse
    /\ site_response = NoResponse

\* main(), lines 197-207, up to the await of asyncio.gather at line 133, on
\* the listings gs and sr; every invocation is a new process
MainOn(gs, sr) ==
    LET r == FetchSiteMappings(gs, sr)
    IN  /\ pc = "idle"
        /\ runs < MaxRuns
        /\ runs' = runs + 1
        /\ get_sites_response' = gs
        /\ site_response' = sr
        /\ start_raw' = raw_files
        /\ start_parsed' = parsed_files
        /\ idx' = 0
        /\ UNCHANGED <<raw_files, parsed_files, hist>>
        /\ IF r.raised \/ r.codes = {}
           THEN /\ outcome' = (IF r.raised THEN "raised" ELSE "no_sites")
                /\ pc' = "idle"
                /\ site_codes' = <<>>
                /\ site_mappings' = r.mappings
                /\ tasks' = EmptyDict
                /\ results' = EmptyDict
                /\ UNCHANGED mappings_file
           ELSE /\ outcome' = ""
                /\ pc' = "gather"
                /\ site_mappings' = r.mappings
                /\ mappings_file' = [exists |-> TRUE, content |-> r.mappings]
                /\ \E order \in Orders(r.codes) :
                      /\ site_codes' = order
                      /\ tasks' = Dispatch(order)
                      /\ results' = [s \in r.codes |-> NoResult]

Main == \E l \in Listings : MainOn(l.gs, l.sr)

\* fetch_json for site s ends: the payload, or the exception, is its result
Complete(s, payload) ==
    /\ pc = "gather"
    /\ s \in DOMAIN tasks
    /\ tasks[s] = "pending"
    /\ tasks' = [tasks EXCEPT ![s] = "done"]
    /\ results' = [results EXCEPT ![s] = payload]
    /\ UNCHANGED <<pc, runs, outcome, get_sites_response, site_response,
                   site_codes, site_mappings, idx, raw_files, parsed_files,
                   mappings_file, start_raw, start_parsed, hist>>

\* line 133: gather returns once every fetch has ended
GatherReturns ==
    /\ pc = "gather"
    /\ AllDone
    /\ pc' = "loop"
    /\ idx' = 1
    /\ UNCHANGED <<runs, outcome, get_sites_response, site_response,
                   site_codes, site_mappings, tasks, results, raw_files,
                   parsed_files, mappings_file, start_raw, start_parsed, hist>>

\* the history of the merges into a parsed file: how many there were, the
\* file before the last one, the new_prices of the last one and of the one
\* before it, and the file as it was first created
Merged(h, file, written, new_prices) ==
    [n      |-> h.n + 1,
     before |-> file,
     prices |-> new_prices,
     prev   |-> h.prices,
     first  |-> IF file.exists THEN h.first ELSE written]

\* lines 135-190: one iteration of the loop over zip(site_codes, results)
LoopBody ==
    /\ pc = "loop"
    /\ idx <= Len(site_codes)
    /\ LET site_code == site_codes[idx]
           result    == results[site_code]
           new       == NewPrices(result)
           written   == ParsedFile(parsed_files[site_code], site_code,
                                   site_mappings, new.prices)
       IN  IF IsFailure(result)
           THEN /\ idx' = idx + 1
                /\ UNCHANGED <<pc, outcome, raw_files, parsed_files, hist>>
           ELSE /\ raw_files' = [raw_files EXCEPT ![site_code] = RawFile(result)]
                /\ IF new.raised
                   THEN /\ pc' = "idle"
                        /\ outcome' = "raised"
                        /\ UNCHANGED <<idx, parsed_files, hist>>
                   ELSE /\ parsed_files' =
                              [parsed_files EXCEPT ![site_code] = written]
                        /\ hist' = [hist EXCEPT ![site_code] =
                              Merged(hist[site_code], parsed_files[site_code],
                                     written, new.prices)]
                        /\ idx' = idx + 1
                        /\ UNCHANGED <<pc, outcome>>
    /\ UNCHANGED <<runs, get_sites_response, site_response, site_codes,
                   site_mappings, tasks, results, mappings_file, start_raw,
                   start_parsed>>

\* the loop is exhausted: fetch_and_save_fuel_prices and main return
LoopExit ==
    /\ pc = "loop"
    /\ idx > Len(site_codes)
    /\ pc' = "idle"
    /\ outcome' = "done"
    /\ UNCHANGED <<runs, get_sites_response, site_response, site_codes,
                   site_mappings, tasks, results, idx, raw_files,
                   parsed_files, mappings_file, start_raw, start_parsed, hist>>

Next ==
    \/ Main
    \/ \E s \in SiteIds, payload \in Payloads : Complete(s, payload)
    \/ GatherReturns
    \/ LoopBody
    \/ LoopExit

Spec == Init /\ [][Next]_vars

\* the reconciler on its own: the two listings are drawn from the wider
\* sets, and one invocation of main consumes them
InitSites ==
    /\ Idle
    /\ get_sites_response \in GetSitesResponses
    /\ site_response \in SiteResponses

MainOnce == runs = 0 /\ MainOn(get_sites_response, site_response)

NextSites == MainOnce

SpecSites == InitSites /\ [][NextSites]_vars

---------------------------------------------------------------------------
(* Vocabulary of the properties *)

Batch == Range(site_codes)

PosOf(s) == CHOOSE i \in 1..Len(site_codes) : site_codes[i] = s

RunEnded == pc = "idle" /\ runs > 0

CompositeKey(p) == <<p.date, p.department_code>>

KeysOf(ps) == {CompositeKey(ps[i]) : i \in 1..Len(ps)}

\* no two entries of ps share a composite key and differ
KeyConsistent(ps) ==
    \A i, j \in 1..Len(ps) :
        CompositeKey(ps[i]) = CompositeKey(ps[j]) => ps[i] = ps[j]

PricesOf(file) == IF file.exists THEN file.prices ELSE <<>>

Header(file) == <<file.site_code, file.site_name, file.latitude, file.longitude>>

\* a payload whose fetch succeeded and that is a JSON object whose price
\* records all carry a timestamp field
WellFormedPayload(result) ==
    /\ result.kind = "dict"
    /\ \A i \in 1..Len(result.entries) : "date_entered" \in DOMAIN result.entries[i]

\* the upstream timestamp format: /Date( digits, a sign, four digits, )/
WellFormedToken(v) ==
    /\ v.is_str
    /\ Len(v.chars) >= 14
    /\ SubSeq(v.chars, 1, 6) = Date \o <<"(">>
    /\ SubSeq(v.chars, Len(v.chars) - 1, Len(v.chars)) = <<")", "/">>
    /\ v.chars[Len(v.chars) - 6] \in {"+", "-"}
    /\ \A i \in 7..(Len(v.chars) - 7) : IsDigit(v.chars[i])
    /\ \A i \in (Len(v.chars) - 5)..(Len(v.chars) - 2) : IsDigit(v.chars[i])

BadToken(entry) ==
    \/ "date_entered" \notin DOMAIN entry
    \/ ~WellFormedToken(entry["date_entered"])

\* the loop has dealt with site s in this run, to the end of its iteration
\* or to the exception that ended the run
Handled(s) ==
    /\ s \in Batch
    /\ pc \in {"loop", "idle"}
    /\ \/ PosOf(s) < idx
       \/ PosOf(s) = idx /\ outcome = "raised"

\* the identifiers of a listing's elements under one field name
IdsUnder(items, key) ==
    {items[i].d[key] : i \in {j \in 1..Len(items) :
        /\ items[j].is_obj
        /\ key \in DOMAIN items[j].d
        /\ Truthy(items[j].d[key])}}

\* a JSON object holding its list under "sites"
MappingWithSites(resp) == resp.kind = "dict" /\ resp.has_sites

\* a JSON list at top level
BareList(resp) == resp.kind = "list"

AllObjects(items) == \A i \in 1..Len(items) : items[i].is_obj

AllStrings(items) == \A i \in 1..Len(items) : ~items[i].is_obj

\* the three shapes the specification recognises
RecognizedShape(resp) ==
    \/ resp.kind = "list" /\ AllObjects(resp.items)
    \/ resp.kind = "dict" /\ resp.has_sites /\ AllObjects(resp.items)
    \/ resp.kind = "list" /\ AllStrings(resp.items)

\* the identifiers extractable from a response in a recognised shape
ExtractableIds(resp) ==
    IdsUnder(resp.items, "site_code") \cup IdsUnder(resp.items, "SiteCode")
        \cup {resp.items[i].s : i \in {j \in 1..Len(resp.items) :
                ~resp.items[j].is_obj /\ Truthy(resp.items[j].s)}}

\* a top-level value in none of the shapes: not a list, not a mapping with
\* the list under the known key
UnrecognizedShape(resp) ==
    resp.kind = "scalar" \/ (resp.kind = "dict" /\ ~resp.has_sites)

SiteFieldName(f) ==
    CASE f = "name" -> "SiteName"
      [] f = "latitude" -> "Latitude"
      [] f = "longitude" -> "Longitude"
      [] f = "address" -> "StreetAddress"

\* the last element of items carrying identifier c under key
LastWith(items, key, c) ==
    items[CHOOSE i \in 1..Len(items) :
            /\ items[i].is_obj /\ Get(items[i].d, key, None) = c
            /\ \A j \in (i + 1)..Len(items) :
                  ~(items[j].is_obj /\ Get(items[j].d, key, None) = c)].d

---------------------------------------------------------------------------
(* C1 *)

\* C1: a per-site failure (a failed fetch or a malformed
\* payload) never aborts the batch: when the run has ended, every site of the
\* batch whose payload was fetched and is well formed has its raw payload and
\* its merged price history on disk.
C1_FailureNeverAbortsBatch ==
    RunEnded =>
        \A s \in Batch :
            WellFormedPayload(results[s]) =>
                /\ raw_files[s] = RawFile(results[s])
                /\ parsed_files[s] =
                      ParsedFile(start_parsed[s], s, site_mappings,
                                 NewPrices(results[s]).prices)

---------------------------------------------------------------------------
(* C2 *)

\* C2: every persisted price history holds at most one entry per composite
\* key (date, department_code), and for every composite key among the entries
\* of the last fetch merged into it, the one entry with that key carries the
\* price of the last fetched entry with that key.
C2_UniqueKeyNewestPrice ==
    \A s \in SiteIds :
        parsed_files[s].exists =>
            LET prices == parsed_files[s].prices
                new    == hist[s].prices
            IN  /\ \A i, j \in 1..Len(prices) :
                      CompositeKey(prices[i]) = CompositeKey(prices[j]) => i = j
                /\ \A j \in 1..Len(new) :
                      (\A k \in (j + 1)..Len(new) :
                            CompositeKey(new[k]) # CompositeKey(new[j]))
                      => \E i \in 1..Len(prices) : prices[i] = new[j]

\* an existing entry and a fetched entry shared a key with different prices,
\* and the merge has been written
C2_Witness ==
    \E s \in SiteIds :
        /\ hist[s].n >= 2
        /\ \E i \in 1..Len(PricesOf(hist[s].before)), j \in 1..Len(hist[s].prices) :
              /\ CompositeKey(hist[s].before.prices[i]) = CompositeKey(hist[s].prices[j])
              /\ hist[s].before.prices[i].price # hist[s].prices[j].price
        /\ parsed_files[s] # hist[s].before

---------------------------------------------------------------------------
(* C3 *)

\* C3: when the entries of a fetch (one entry per composite key) have keys
\* disjoint from those of the existing history, the history written is the
\* union of both, nothing lost; and when a fetch brings the same new entries
\* as the previous merge into the file, the file written equals the file
\* before it.
C3_DisjointUnionIdempotent ==
    \A s \in SiteIds :
        hist[s].n >= 1 =>
            LET before == PricesOf(hist[s].before)
                new    == hist[s].prices
                prices == parsed_files[s].prices
            IN  /\ (KeysOf(before) \cap KeysOf(new) = {} /\ KeyConsistent(new))
                      => /\ Range(prices) = Range(before) \cup Range(new)
                         /\ Len(prices) = Cardinality(Range(before) \cup Range(new))
                /\ (hist[s].n >= 2 /\ new = hist[s].prev)
                      => parsed_files[s] = hist[s].before

\* one site's history took a fetch with disjoint keys, another site's took
\* the same non-empty fetch twice
C3_Witness ==
    \E s, u \in SiteIds :
        /\ hist[s].n >= 2
        /\ PricesOf(hist[s].before) # <<>>
        /\ hist[s].prices # <<>>
        /\ KeysOf(hist[s].before.prices) \cap KeysOf(hist[s].prices) = {}
        /\ KeyConsistent(hist[s].prices)
        /\ hist[u].n >= 2
        /\ hist[u].prices # <<>>
        /\ hist[u].prices = hist[u].prev

---------------------------------------------------------------------------
(* C4 *)

\* C4: a site whose fetch failed has its raw file and its parsed file as
\* they were when the run started (absent if they were absent); and when the
\* run completes, every site of the batch whose fetch succeeded has a parsed
\* file and its payload as raw file.
C4_FailedFetchLeavesFilesUntouched ==
    /\ \A s \in DOMAIN results :
          results[s].kind = "exception" =>
              /\ raw_files[s] = start_raw[s]
              /\ parsed_files[s] = start_parsed[s]
    /\ outcome = "done" =>
          \A s \in Batch :
              ~(results[s].kind = "exception") =>
                  /\ parsed_files[s].exists
                  /\ raw_files[s] = RawFile(results[s])

\* S1's fetch succeeded and S2's failed over files S2 already had
C4_Witness ==
    /\ outcome = "done"
    /\ Batch = {"S1", "S2"}
    /\ results["S2"].kind = "exception"
    /\ start_parsed["S2"].exists
    /\ start_raw["S2"].exists
    /\ results["S1"].kind = "dict"
    /\ parsed_files["S1"] # start_parsed["S1"]

---------------------------------------------------------------------------
(* C5 *)

\* C5: when both listings supply a record for a site, a field
\* the site listing does not supply keeps the value the get_sites listing
\* gave it.
C5_UnsuppliedFieldsKept ==
    (/\ runs = 1
     /\ MappingWithSites(get_sites_response) /\ AllObjects(get_sites_response.items)
     /\ BareList(site_response) /\ AllObjects(site_response.items))
    => \A c \in IdsUnder(get_sites_response.items, "site_code")
                \cap IdsUnder(site_response.items, "SiteCode") :
          \A f \in {"name", "latitude", "longitude", "address"} :
              (\A i \in 1..Len(site_response.items) :
                    Get(site_response.items[i].d, "SiteCode", None) = c
                        => SiteFieldName(f) \notin DOMAIN site_response.items[i].d)
              => site_mappings[c][f] =
                    GetSitesRecord(LastWith(get_sites_response.items,
                                            "site_code", c), c)[f]

---------------------------------------------------------------------------
(* C6 *)

\* C6: for every pair of listings, each in one of the three
\* recognised shapes, the reconciler returns the union of the identifiers
\* extractable from the two, without duplicates.
C6_UnionOverThreeShapes ==
    (/\ runs = 1
     /\ RecognizedShape(get_sites_response)
     /\ RecognizedShape(site_response))
    => /\ outcome # "raised"
       /\ Range(site_codes) =
             ExtractableIds(get_sites_response) \cup ExtractableIds(site_response)
       /\ Len(site_codes) = Cardinality(Range(site_codes))

---------------------------------------------------------------------------
(* C7 *)

\* C7: when one listing's top-level shape is not recognised, that
\* source contributes nothing and the reconciler still returns the
\* identifiers and records harvested from the other.
C7_OtherSourceStillReturned ==
    runs = 1 =>
        /\ (/\ UnrecognizedShape(get_sites_response)
            /\ BareList(site_response) /\ AllObjects(site_response.items))
           => /\ Range(site_codes) = IdsUnder(site_response.items, "SiteCode")
              /\ DOMAIN site_mappings = IdsUnder(site_response.items, "SiteCode")
        /\ (/\ UnrecognizedShape(site_response)
            /\ MappingWithSites(get_sites_response)
            /\ AllObjects(get_sites_response.items))
           => /\ Range(site_codes) = IdsUnder(get_sites_response.items, "site_code")
              /\ DOMAIN site_mappings = IdsUnder(get_sites_response.items, "site_code")

---------------------------------------------------------------------------
(* C9 *)

\* C9: a price record whose timestamp token is malformed or
\* absent raises no uncaught error, stays in the raw payload and contributes
\* no entry to the normalized history.
C9_BadTimestampDroppedQuietly ==
    \A s \in DOMAIN results :
        (/\ Handled(s)
         /\ results[s].kind = "dict"
         /\ \E i \in 1..Len(results[s].entries) : BadToken(results[s].entries[i]))
        => /\ ~(outcome = "raised" /\ PosOf(s) = idx)
           /\ raw_files[s] = RawFile(results[s])
           /\ \A j \in 1..Len(hist[s].prices) :
                 \E i \in 1..Len(results[s].entries) :
                    LET entry == results[s].entries[i]
                    IN  /\ ~BadToken(entry)
                        /\ Get(entry, "department_code", None)
                              = hist[s].prices[j].department_code
                        /\ Get(entry, "current_price", 0) = hist[s].prices[j].price

---------------------------------------------------------------------------
(* C10 *)

\* C10: a parsed file that has been merged into carries the site_code,
\* site_name, latitude and longitude it was created with, whatever the site
\* mappings of the later runs say.
C10_HeaderKeptFromCreation ==
    \A s \in SiteIds :
        hist[s].n >= 1 =>
            /\ parsed_files[s].exists
            /\ Header(parsed_files[s]) = Header(hist[s].first)
            /\ hist[s].before.exists =>
                  Header(parsed_files[s]) = Header(hist[s].before)

\* a merge changed the prices of an existing file while this run's mappings
\* name the site differently
C10_Witness ==
    \E s \in SiteIds :
        /\ hist[s].n >= 2
        /\ s \in DOMAIN site_mappings
        /\ site_mappings[s]["name"] # parsed_files[s].site_name
        /\ parsed_files[s].prices # hist[s].before.prices

====
